---- MODULE Spec2Model ----
(***************************************************************************)
(* A model of the valog value log (al8n/valog): the append path            *)
(* (src/src/log/writer.rs, insert_in and the six insert variants), the     *)
(* read path (src/src/log/reader.rs, Reader::read) and the part of the     *)
(* arena the two consume (bump allocation, roll back of an allocation      *)
(* that was not detached, the discarded counter).                          *)
(*                                                                         *)
(* The log is shared by the writer threads of Writers; every insert is     *)
(* split at the points where it touches the shared arena, so that TLC      *)
(* explores every interleaving of allocate / fill / checksum / flush /     *)
(* detach / return of concurrent inserts.                                  *)
(***************************************************************************)
EXTENDS Integers, Sequences, FiniteSets, TLC

\* ------------------------------------------------------------------ bounds
\* Arena capacity (Builder::with_capacity), in bytes.
Capacity == 28
\* Longest payload a caller inserts.
MaxLen == 2
\* Number of insert calls in one run.
MaxOps == 2
\* Largest log id / pointer id.
MaxId == 1
\* Size of a page of the file-backed map, the unit of a flush (4096 scaled down).
PageSize == 16
\* The values of Options::max_value_size the runs are started with: one below
\* the checksum's length, one that admits the shortest payloads only, one that
\* admits every payload.
TinyMaxValueSize == 2
SmallMaxValueSize == 9
BigMaxValueSize == 100

\* ------------------------------------------------------- program constants
CHECKSUM_LEN == 8
MAGIC_TEXT_SIZE == 6
MAGIC_VERSION_SIZE == 2
HEADER_SIZE == MAGIC_TEXT_SIZE + MAGIC_VERSION_SIZE
\* Options::new(): reserved = 0.
DefaultReserved == 0

Writers == {"w1", "w2"}
Ids == 0..MaxId
\* The bytes callers put into payloads (the arena starts zeroed).
Bytes == {1, 2}

RECURSIVE SeqsUpTo(_, _)
SeqsUpTo(S, n) ==
  IF n = 0 THEN {<<>>}
  ELSE LET shorter == SeqsUpTo(S, n - 1)
       IN  shorter \cup {Append(s, b) : s \in {x \in shorter : Len(x) = n - 1}, b \in S}

\* The payloads callers insert: the byte strings of at most MaxLen bytes in
\* which neighbouring bytes differ, so that every byte of a payload tells its
\* position from the next.
Payloads ==
  {p \in SeqsUpTo(Bytes, MaxLen) : \A i \in 1..(Len(p) - 1) : p[i] # p[i + 1]}

VARIABLES
  fid,        \* ValueLog.fid: the id given at construction
  opts,       \* ValueLog.options (the fields the read and write paths use)
  ondisk,     \* allocator.is_ondisk(): the arena is a file-backed map
  life,       \* the handle on the arena: a mutable log, a frozen log or none
              \* (the file is closed), and what the last open returned
  mem,        \* the arena's bytes, by offset
  allocated,  \* the arena's allocated high-water mark
  discarded,  \* the arena's discarded counter
  pc,         \* per writer: where it is inside insert_in
  cur,        \* per writer: the locals of its insert call
  result,     \* per writer: what its last insert call returned
  returned,   \* the pointers the writers sent to the readers, in sending order
  rd,         \* the last read: the pointer read and the result
  ops         \* number of insert calls started

vars == <<fid, opts, ondisk, life, mem, allocated, discarded, pc, cur, result, returned, rd, ops>>

\* ------------------------------------------------------------ pure helpers
\* mem[off .. off+n-1] as a sequence (allocator.get_bytes(off, n)).
get_bytes(m, off, n) == [i \in 1..n |-> m[off + i - 1]]

\* A copy that stops one byte early.
put_bytes_short(m, off, s) ==
  [i \in DOMAIN m |-> IF i >= off /\ i < off + Len(s) - 1 THEN s[i - off + 1] ELSE m[i]]

\* m with the bytes of s written at off (put_slice_unchecked, put_u64_le_unchecked).
put_bytes(m, off, s) ==
  [i \in DOMAIN m |-> IF i >= off /\ i < off + Len(s) THEN s[i - off + 1] ELSE m[i]]

Zeros(n) == [i \in 1..n |-> 0]

\* The checksumer (BuildChecksumer::checksum_one): a parameter of the log.  A
\* positional hash stands for Crc32: like a CRC it separates a sequence from
\* every sequence that differs from it in one byte or in length.
RECURSIVE checksum(_)
checksum(s) ==
  IF s = <<>> THEN 0
  ELSE (checksum(SubSeq(s, 1, Len(s) - 1)) * 31 + (s[Len(s)] + 1) * 263) % 65536

\* The n low bytes of v, most significant first.
RECURSIVE be_bytes(_, _)
be_bytes(v, n) == IF n = 0 THEN <<>> ELSE be_bytes(v \div 256, n - 1) \o <<v % 256>>

\* The n low bytes of v, least significant first.
RECURSIVE le_bytes(_, _)
le_bytes(v, n) == IF n = 0 THEN <<>> ELSE <<v % 256>> \o le_bytes(v \div 256, n - 1)

\* u64::to_le_bytes, as put_u64_le_unchecked stores it.
to_le_bytes(v) == le_bytes(v, CHECKSUM_LEN)

\* ValuePointer::new
ValuePointer(id, offset, size) == [id |-> id, offset |-> offset, size |-> size]

\* A data offset that counts the header and the reserved bytes only.
data_offset_no_null == HEADER_SIZE + DefaultReserved

\* Allocator::data_offset of an arena built by Builder::alloc: the 8 header
\* bytes and the reserved bytes follow the arena's null offset 0.
data_offset == HEADER_SIZE + DefaultReserved + 1

\* ------------------------------------------------------------- the arena
\* What the log consumes of rarena_allocator (Freelist::None, the default of
\* Options::new()).

\* alloc_bytes(n) succeeds when n more bytes fit below the capacity.
alloc_fits(n) == allocated + n <= Capacity

\* The space of an arena that holds no record.
remaining_of_empty == Capacity - data_offset

\* The space alloc_bytes reports as available when it fails.
remaining == Capacity - allocated

\* A rollback that counts the bytes it gives back as discarded.
dealloc_counting(offset, size) ==
  IF allocated = offset + size
    THEN <<offset, discarded + size>>
    ELSE <<allocated, discarded + size>>

\* Dropping a buffer that was not detached gives the allocation back: the
\* high-water mark is moved back when the allocation is still the last one;
\* otherwise the bytes are counted as discarded.  Returns the new
\* <<allocated, discarded>>.
dealloc(offset, size) ==
  IF allocated = offset + size
    THEN <<offset, discarded>>
    ELSE <<allocated, discarded + size>>

\* Drop of the insert's buffer (RAII): a detached buffer keeps its bytes.
drop_buf(c) ==
  IF c.detached THEN <<allocated, discarded>>
  ELSE dealloc(c.offset, c.size + CHECKSUM_LEN)

\* --------------------------------------------------------------- results
\* Ok(pointer); with it go the call's arguments: hint, the size the call was
\* made with, and given, the bytes its builder wrote.
Ok(p, given, hint) == [kind |-> "Ok", ptr |-> p, given |-> given, hint |-> hint]
value_too_large(size, maximum) == [kind |-> "ValueTooLarge", size |-> size, maximum |-> maximum]
from_insufficient_space(requested, available) ==
  [kind |-> "InsufficientSpace", requested |-> requested, available |-> available]
EncodeError == [kind |-> "EncodeError"]
IOError == [kind |-> "IO"]
NoResult == [kind |-> "none"]

ReadOk(bytes) == [kind |-> "Ok", bytes |-> bytes]
out_of_bounds(offset, len, doff, end) ==
  [kind |-> "OutOfBounds", offset |-> offset, len |-> len, data_offset |-> doff, end_offset |-> end]
checksum_mismatch == [kind |-> "ChecksumMismatch"]
NoRead == [kind |-> "none"]

\* ------------------------------------------------------------ the handles
\* What an open returned.
Opened == "Ok"
bad_magic_text == "InvalidData: bad magic text"
bad_magic_version == "InvalidData: bad magic version"

\* The log a constructor returned: ValueLog, which has the writers, or
\* ImmutableValueLog, which has the readers only; Closed after the log was
\* dropped, when the file is all there is.
Mutable(open) == [mode |-> "mutable", open |-> open]
Frozen(open) == [mode |-> "frozen", open |-> open]
Closed(open) == [mode |-> "closed", open |-> open]

\* A Writer implementation for every log.
IsMutable_any == life.mode \in {"mutable", "frozen"}

\* `impl Writer for ValueLog`: the inserts exist on a mutable log only.
IsMutable == life.mode = "mutable"

\* `impl Reader` for ValueLog and ImmutableValueLog: the reads exist on both.
IsReadable == life.mode \in {"mutable", "frozen"}

\* ------------------------------------------------------------- the reader
\* A shortcut that looks at the length only.
IsZeroPointer_any_offset(offset, len) == len = 0

\* Reader::read, the shortcut for the zero pointer.
IsZeroPointer(offset, len) == offset = 0 /\ len = 0

\* Bounds checks that are off by one at both ends.
OutOfRange_exclusive(offset, len) ==
  \/ offset <= data_offset
  \/ offset + len + CHECKSUM_LEN >= allocated

\* Reader::read, the two bounds checks.
OutOfRange(offset, len) ==
  \/ offset < data_offset
  \/ offset + len + CHECKSUM_LEN > allocated

\* A comparison of the lowest byte of the checksum only.
ChecksumFails_low_byte(buf, len) ==
  buf[len + 1] # to_le_bytes(checksum(SubSeq(buf, 1, len)))[1]

\* Reader::read, the checksum comparison: the stored trailing u64 against the
\* digest of the first len bytes.  u64::from_le_bytes(b) = d exactly when
\* b = d.to_le_bytes(), which is how the comparison is written here.
ChecksumFails(buf, len) ==
  SubSeq(buf, len + 1, len + CHECKSUM_LEN) # to_le_bytes(checksum(SubSeq(buf, 1, len)))

\* A read that compares the checksum whatever the options say.
read_validating(offset, len) ==
  IF IsZeroPointer(offset, len) THEN ReadOk(<<>>)
  ELSE IF OutOfRange(offset, len)
    THEN out_of_bounds(offset, len + CHECKSUM_LEN, data_offset, allocated)
  ELSE LET buf == get_bytes(mem, offset, len + CHECKSUM_LEN)
       IN  IF ChecksumFails(buf, len)
             THEN checksum_mismatch
             ELSE ReadOk(SubSeq(buf, 1, len))

\* Reader::read(offset, len).  It takes no log id.
read(offset, len) ==
  IF IsZeroPointer(offset, len) THEN ReadOk(<<>>)
  ELSE IF OutOfRange(offset, len)
    THEN out_of_bounds(offset, len + CHECKSUM_LEN, data_offset, allocated)
  ELSE LET buf == get_bytes(mem, offset, len + CHECKSUM_LEN)
       IN  IF opts.validate_checksum /\ ChecksumFails(buf, len)
             THEN checksum_mismatch
             ELSE ReadOk(SubSeq(buf, 1, len))

\* The generic type of the tests and of the example is String, and its
\* reference view &str: a text, here the sequence of its characters (ASCII, so
\* that one character is one byte of the encoding).
Str(chars) == [str |-> chars]
Strings == {Str(p) : p \in Payloads}

\* Ok(T::Ref) of read_generic
ReadRef(ref) == [kind |-> "Ok", ref |-> ref]

\* A view that loses the first byte of the slice.
from_slice_trimmed(bytes) == Str(SubSeq(bytes, 2, Len(bytes)))

\* <&str as TypeRef>::from_slice: the text whose encoding the slice holds.
from_slice(bytes) == Str(bytes)

\* ReaderExt::read_generic::<T>: the raw read, then T::Ref::from_slice.
read_generic(offset, len) ==
  LET r == read(offset, len)
  IN  IF r.kind = "Ok" THEN ReadRef(from_slice(r.bytes)) ELSE r

\* ------------------------------------------------------------- the writer
\* ValueBuilder::new(size, f): the size hint, the bytes the closure puts into
\* the vacant buffer (put_slice appends, so at most size of them) and whether
\* the closure then returns an error.
ValueBuilder(size, data, err) == [size |-> size, data |-> data, err |-> err]

Builders ==
  {vb \in {ValueBuilder(n, d, e) : n \in 0..MaxLen, d \in Payloads, e \in BOOLEAN} :
     Len(vb.data) <= vb.size}

NoCall == [tomb |-> FALSE, size |-> 0, data |-> <<>>, err |-> FALSE,
           offset |-> 0, detached |-> FALSE, synced |-> {}]

\* What a writer thread sends to the readers after a successful insert: the
\* pointer, and with it the bytes its builder wrote.
Sent(p, data) == [ptr |-> p, given |-> data]

\* No shortcut for the empty payload.
IsEmptyInsert_never(size) == FALSE

\* insert_in: `if vb.size == 0`.
IsEmptyInsert(size) == size = 0

\* A length that forgets the checksum.
TotalLen_payload_only(value_len) == value_len

\* insert_in: `let len = value_len as usize + CHECKSUM_LEN`.
TotalLen(value_len) == value_len + CHECKSUM_LEN

\* A cap applied to the payload without its checksum.
ExceedsMaximum_payload(len) == len - CHECKSUM_LEN > opts.max_value_size

\* insert_in: `if len > maximum as usize`.
ExceedsMaximum(len) == len > opts.max_value_size

\* A counter that is overwritten with the last tombstone's size.
increase_discarded_store(d, n) == n

\* Arena::increase_discarded(n), as the tombstone variants call it on success.
increase_discarded(d, n) == d + n

\* A pointer whose size is the whole record's.
ResultPointer_total(begin_offset, value_len) ==
  ValuePointer(fid, begin_offset, value_len + CHECKSUM_LEN)

\* A pointer whose offset is the buffer's write position after the payload.
ResultPointer_end(begin_offset, value_len) ==
  ValuePointer(fid, begin_offset + value_len, value_len)

\* A pointer that carries the default id instead of the log's.
ResultPointer_default_id(begin_offset, value_len) == ValuePointer(0, begin_offset, value_len)

\* The pointer insert_in returns on success.
ResultPointer(begin_offset, value_len) == ValuePointer(fid, begin_offset, value_len)

\* An insert_in that allocates before it checks the size cap and keeps the
\* allocation when the check fails.
insert_in_alloc_first(t, vb, tomb) ==
  /\ pc[t] = "idle"
  /\ IsMutable
  /\ ops < MaxOps
  /\ ops' = ops + 1
  /\ IF IsEmptyInsert(vb.size)
       THEN /\ result' = [result EXCEPT ![t] = Ok(ValuePointer(fid, 0, 0), <<>>, vb.size)]
            /\ pc' = [pc EXCEPT ![t] = "done"]
            /\ UNCHANGED <<cur, allocated, discarded, mem>>
     ELSE IF ~alloc_fits(TotalLen(vb.size))
       THEN /\ result' = [result EXCEPT ![t] =
                            from_insufficient_space(TotalLen(vb.size), remaining)]
            /\ pc' = [pc EXCEPT ![t] = "done"]
            /\ UNCHANGED <<cur, discarded, allocated, mem>>
     ELSE IF ExceedsMaximum(TotalLen(vb.size))
       THEN /\ result' = [result EXCEPT ![t] =
                            value_too_large(TotalLen(vb.size), opts.max_value_size)]
            /\ allocated' = allocated + TotalLen(vb.size)
            /\ pc' = [pc EXCEPT ![t] = "done"]
            /\ UNCHANGED <<cur, discarded, mem>>
     ELSE /\ allocated' = allocated + TotalLen(vb.size)
          /\ mem' = put_bytes(mem, allocated, Zeros(vb.size))
          /\ cur' = [cur EXCEPT ![t] = [tomb |-> tomb, size |-> vb.size, data |-> vb.data,
                                        err |-> vb.err, offset |-> allocated,
                                        detached |-> FALSE, synced |-> {}]]
          /\ pc' = [pc EXCEPT ![t] = "fill"]
          /\ UNCHANGED <<result, discarded>>
  /\ UNCHANGED <<fid, opts, ondisk, life, returned, rd>>

\* insert_in up to the builder's call: the zero-size shortcut, the size cap,
\* allocator.alloc_bytes(len), begin_offset = buf.offset() and
\* buf.set_len(value_len), which zeroes the payload part of the buffer.  The
\* checks read only the call's arguments and the frozen options, so the step
\* takes effect at the allocation.  tomb tells whether a tombstone variant
\* made the call: those add the size hint to the discarded counter when
\* insert_in returns Ok.
insert_in(t, vb, tomb) ==
  /\ pc[t] = "idle"
  /\ IsMutable
  /\ ops < MaxOps
  /\ ops' = ops + 1
  /\ IF IsEmptyInsert(vb.size)
       THEN /\ result' = [result EXCEPT ![t] = Ok(ValuePointer(fid, 0, 0), <<>>, vb.size)]
            /\ discarded' = IF tomb THEN increase_discarded(discarded, vb.size) ELSE discarded
            /\ pc' = [pc EXCEPT ![t] = "done"]
            /\ UNCHANGED <<cur, allocated, mem>>
     ELSE IF ExceedsMaximum(TotalLen(vb.size))
       THEN /\ result' = [result EXCEPT ![t] =
                            value_too_large(TotalLen(vb.size), opts.max_value_size)]
            /\ pc' = [pc EXCEPT ![t] = "done"]
            /\ UNCHANGED <<cur, discarded, allocated, mem>>
     ELSE IF ~alloc_fits(TotalLen(vb.size))
       THEN /\ result' = [result EXCEPT ![t] =
                            from_insufficient_space(TotalLen(vb.size), remaining)]
            /\ pc' = [pc EXCEPT ![t] = "done"]
            /\ UNCHANGED <<cur, discarded, allocated, mem>>
     ELSE /\ allocated' = allocated + TotalLen(vb.size)
          /\ mem' = put_bytes(mem, allocated, Zeros(vb.size))
          /\ cur' = [cur EXCEPT ![t] = [tomb |-> tomb, size |-> vb.size, data |-> vb.data,
                                        err |-> vb.err, offset |-> allocated,
                                        detached |-> FALSE, synced |-> {}]]
          /\ pc' = [pc EXCEPT ![t] = "fill"]
          /\ UNCHANGED <<result, discarded>>
  /\ UNCHANGED <<fid, opts, ondisk, life, returned, rd>>

\* An insert that counts its value as discarded.
insert_discarding(t, value) == insert_in(t, ValueBuilder(Len(value), value, FALSE), TRUE)

\* Writer::insert(value): the size hint is value.len(), the closure copies value.
insert(t, value) == insert_in(t, ValueBuilder(Len(value), value, FALSE), FALSE)

\* Writer::insert_tombstone(value)
insert_tombstone(t, value) == insert_in(t, ValueBuilder(Len(value), value, FALSE), TRUE)

\* WriterExt::insert_with(vb)
insert_with(t, vb) == insert_in(t, vb, FALSE)

\* WriterExt::insert_tombstone_with(vb)
insert_tombstone_with(t, vb) == insert_in(t, vb, TRUE)

\* Type::encoded_len and Type::encode of String: the bytes of the text, one per
\* character; encode may fail with T::Error.
encoded_len(value) == Len(value.str)
encode(value) == value.str

\* WriterExt::insert_generic(value): the closure sets the vacant buffer's length
\* to encoded_len and encodes into it.
insert_generic(t, value, fails) ==
  insert_in(t, ValueBuilder(encoded_len(value), encode(value), fails), FALSE)

\* WriterExt::insert_generic_tombstone(value)
insert_generic_tombstone(t, value, fails) ==
  insert_in(t, ValueBuilder(encoded_len(value), encode(value), fails), TRUE)

\* A builder step whose error comes back as a log error.
Fill_as_log_error(t) ==
  /\ pc[t] = "fill"
  /\ mem' = put_bytes(mem, cur[t].offset, cur[t].data)
  /\ IF cur[t].err
       THEN /\ result' = [result EXCEPT ![t] = IOError]
            /\ allocated' = drop_buf(cur[t])[1]
            /\ discarded' = drop_buf(cur[t])[2]
            /\ pc' = [pc EXCEPT ![t] = "done"]
            /\ cur' = [cur EXCEPT ![t] = NoCall]
       ELSE /\ pc' = [pc EXCEPT ![t] = "cksum"]
            /\ UNCHANGED <<result, allocated, discarded, cur>>
  /\ UNCHANGED <<fid, opts, ondisk, life, returned, rd, ops>>

\* A builder step that detaches the buffer before it returns the error, so that
\* nothing is given back.
Fill_detaching(t) ==
  /\ pc[t] = "fill"
  /\ mem' = put_bytes(mem, cur[t].offset, cur[t].data)
  /\ IF cur[t].err
       THEN /\ result' = [result EXCEPT ![t] = EncodeError]
            /\ allocated' = drop_buf([cur[t] EXCEPT !.detached = TRUE])[1]
            /\ discarded' = drop_buf([cur[t] EXCEPT !.detached = TRUE])[2]
            /\ pc' = [pc EXCEPT ![t] = "done"]
            /\ cur' = [cur EXCEPT ![t] = NoCall]
       ELSE /\ pc' = [pc EXCEPT ![t] = "cksum"]
            /\ UNCHANGED <<result, allocated, discarded, cur>>
  /\ UNCHANGED <<fid, opts, ondisk, life, returned, rd, ops>>

\* insert_in: builder(&mut vacant_buf).map_err(Either::Left)?  The closure's
\* bytes land at the start of the buffer; on an error the buffer is dropped
\* without detach.
Fill(t) ==
  /\ pc[t] = "fill"
  /\ mem' = put_bytes(mem, cur[t].offset, cur[t].data)
  /\ IF cur[t].err
       THEN /\ result' = [result EXCEPT ![t] = EncodeError]
            /\ allocated' = drop_buf(cur[t])[1]
            /\ discarded' = drop_buf(cur[t])[2]
            /\ pc' = [pc EXCEPT ![t] = "done"]
            /\ cur' = [cur EXCEPT ![t] = NoCall]
       ELSE /\ pc' = [pc EXCEPT ![t] = "cksum"]
            /\ UNCHANGED <<result, allocated, discarded, cur>>
  /\ UNCHANGED <<fid, opts, ondisk, life, returned, rd, ops>>

\* The bytes l.checksum(&vacant_buf) digests: the filled part of the vacant
\* buffer, as it is in the arena.
FilledBytes(c) == get_bytes(mem, c.offset, Len(c.data))

\* An insert that never flushes.
MustFlush_never == FALSE

\* insert_in: `opts.sync && allocator.is_ondisk()`.
MustFlush == opts.sync /\ ondisk

\* insert_in: checksum = l.checksum(&vacant_buf); buf.put_u64_le_unchecked(checksum)
\* writes it after the value_len payload bytes.
Checksum(t) ==
  /\ pc[t] = "cksum"
  /\ mem' = put_bytes(mem, cur[t].offset + cur[t].size, to_le_bytes(checksum(FilledBytes(cur[t]))))
  /\ pc' = [pc EXCEPT ![t] = IF MustFlush THEN "flush" ELSE "commit"]
  /\ UNCHANGED <<fid, opts, ondisk, life, allocated, discarded, cur, result, returned, rd, ops>>

\* Allocator::flush_range(offset, len) on a file-backed map: msync works on
\* whole pages, so the pages that hold a byte of the range are written out.
flush_range(offset, len) == (offset \div PageSize)..((offset + len - 1) \div PageSize)

\* A flush whose failure is reported after the buffer was detached.
Flush_detaching(t) ==
  /\ pc[t] = "flush"
  /\ \E io_ok \in BOOLEAN :
       IF io_ok
         THEN /\ pc' = [pc EXCEPT ![t] = "commit"]
              /\ cur' = [cur EXCEPT ![t].synced =
                                     flush_range(cur[t].offset, TotalLen(cur[t].size))]
              /\ UNCHANGED <<result, allocated, discarded>>
         ELSE /\ result' = [result EXCEPT ![t] = IOError]
              /\ allocated' = drop_buf([cur[t] EXCEPT !.detached = TRUE])[1]
              /\ discarded' = drop_buf([cur[t] EXCEPT !.detached = TRUE])[2]
              /\ pc' = [pc EXCEPT ![t] = "done"]
              /\ cur' = [cur EXCEPT ![t] = NoCall]
  /\ UNCHANGED <<fid, opts, ondisk, life, mem, returned, rd, ops>>

\* insert_in: allocator.flush_range(begin_offset, len).map_err(..)?  The flush
\* is an OS call that succeeds or fails; on failure the buffer is dropped
\* without detach.  synced keeps the pages the call has written out.
Flush(t) ==
  /\ pc[t] = "flush"
  /\ \E io_ok \in BOOLEAN :
       IF io_ok
         THEN /\ pc' = [pc EXCEPT ![t] = "commit"]
              /\ cur' = [cur EXCEPT ![t].synced =
                                     flush_range(cur[t].offset, TotalLen(cur[t].size))]
              /\ UNCHANGED <<result, allocated, discarded>>
         ELSE /\ result' = [result EXCEPT ![t] = IOError]
              /\ allocated' = drop_buf(cur[t])[1]
              /\ discarded' = drop_buf(cur[t])[2]
              /\ pc' = [pc EXCEPT ![t] = "done"]
              /\ cur' = [cur EXCEPT ![t] = NoCall]
  /\ UNCHANGED <<fid, opts, ondisk, life, mem, returned, rd, ops>>

\* A detach that was left out.
detach_forgotten(c) == c

\* BytesRefMut::detach: the buffer no longer gives its bytes back when dropped.
detach(c) == [c EXCEPT !.detached = TRUE]

\* A commit that waits until every record allocated before its own is
\* committed.
Commit_in_order(t) ==
  /\ pc[t] = "commit"
  /\ \A u \in Writers \ {t} :
       pc[u] \in {"fill", "cksum", "flush", "commit"} => cur[u].offset > cur[t].offset
  /\ LET p == ResultPointer(cur[t].offset, cur[t].size)
         dropped == drop_buf(detach(cur[t]))
     IN  /\ result' = [result EXCEPT ![t] = Ok(p, cur[t].data, cur[t].size)]
         /\ allocated' = dropped[1]
         /\ discarded' = IF cur[t].tomb THEN increase_discarded(dropped[2], cur[t].size)
                         ELSE dropped[2]
  /\ pc' = [pc EXCEPT ![t] = "done"]
  /\ cur' = [cur EXCEPT ![t] = NoCall]
  /\ UNCHANGED <<fid, opts, ondisk, life, mem, returned, rd, ops>>

\* insert_in: buf.detach(); Ok(ValuePointer::new(id, begin_offset, value_len));
\* buf goes out of scope; a tombstone variant then increases the discarded
\* counter by its size hint.
Commit(t) ==
  /\ pc[t] = "commit"
  /\ LET p == ResultPointer(cur[t].offset, cur[t].size)
         dropped == drop_buf(detach(cur[t]))
     IN  /\ result' = [result EXCEPT ![t] = Ok(p, cur[t].data, cur[t].size)]
         /\ allocated' = dropped[1]
         /\ discarded' = IF cur[t].tomb THEN increase_discarded(dropped[2], cur[t].size)
                         ELSE dropped[2]
  /\ pc' = [pc EXCEPT ![t] = "done"]
  /\ cur' = [cur EXCEPT ![t] = NoCall]
  /\ UNCHANGED <<fid, opts, ondisk, life, mem, returned, rd, ops>>

\* The caller after insert returned: a writer thread of the tests sends the
\* pointer of a successful insert to the readers (tx.send(vp)); an error is
\* dropped.  The thread is then free for its next call.
Handoff(t) ==
  /\ pc[t] = "done"
  /\ returned' = IF result[t].kind = "Ok"
                   THEN Append(returned, Sent(result[t].ptr, result[t].given))
                   ELSE returned
  /\ result' = [result EXCEPT ![t] = NoResult]
  /\ pc' = [pc EXCEPT ![t] = "idle"]
  /\ UNCHANGED <<fid, opts, ondisk, life, mem, allocated, discarded, cur, rd, ops>>

\* ---------------------------------------------------------------- readers
\* A reader thread calls read with a value pointer it received from a writer
\* (a pointer of returned, sent after the insert returned).
Read(p) ==
  /\ IsReadable
  /\ rd' = [ptr |-> p, res |-> read(p.offset, p.size)]
  /\ UNCHANGED <<fid, opts, ondisk, life, mem, allocated, discarded, pc, cur, result, returned, ops>>

\* The same through read_generic.
ReadGeneric(p) ==
  /\ IsReadable
  /\ rd' = [ptr |-> p, res |-> read_generic(p.offset, p.size)]
  /\ UNCHANGED <<fid, opts, ondisk, life, mem, allocated, discarded, pc, cur, result, returned, ops>>

\* ------------------------------------------------------------ specification
\* ------------------------------------------------------------- the header
\* MAGIC_TEXT = *b"valog!"
MAGIC_TEXT == <<118, 97, 108, 111, 103, 33>>

\* The magic_version of the Builder that creates the file, and the versions of
\* the Builders that open it: the creator's, the default 0, and the creator's
\* with its two bytes swapped.
CreatorVersion == 2 + 256 * 1
Versions == {0, CreatorVersion, 1 + 256 * 2}

\* The two bytes read most significant first.
u16_from_be_bytes(b) == 256 * b[1] + b[2]

\* u16::from_le_bytes
u16_from_le_bytes(b) == b[1] + 256 * b[2]

\* write_header(buf, magic_version), buf being the arena's reserved slice, at
\* the start of the arena.
write_header(m, magic_version) ==
  put_bytes(put_bytes(m, 0, MAGIC_TEXT), MAGIC_TEXT_SIZE, le_bytes(magic_version, MAGIC_VERSION_SIZE))

\* Builder::check_header(buf, magic_version)
check_header(buf, magic_version) ==
  IF SubSeq(buf, 1, MAGIC_TEXT_SIZE) # MAGIC_TEXT THEN bad_magic_text
  ELSE IF u16_from_le_bytes(SubSeq(buf, MAGIC_TEXT_SIZE + 1, HEADER_SIZE)) # magic_version
    THEN bad_magic_version
  ELSE Opened

\* arena.reserved_slice() of the arena mapped from the file.
reserved_slice == get_bytes(mem, 0, HEADER_SIZE + DefaultReserved)

\* drop(log) of a file-backed log with no call in progress: the file stays,
\* with the bytes of the map and the arena's allocated mark.
drop_log ==
  /\ ondisk
  /\ life.mode \in {"mutable", "frozen"}
  /\ \A t \in Writers : pc[t] = "idle"
  /\ life' = Closed(life.open)
  /\ UNCHANGED <<fid, opts, ondisk, mem, allocated, discarded, pc, cur, result, returned, rd, ops>>

\* An open that takes the file for an empty arena: the allocated mark the
\* dropped log left is not taken over.
map_unmarked(version) ==
  /\ ondisk
  /\ life.mode = "closed"
  /\ LET checked == check_header(reserved_slice, version)
     IN  IF checked = Opened
           THEN /\ life' = Frozen(Opened)
                /\ opts' = [opts EXCEPT !.magic_version = version]
                /\ discarded' = 0
                /\ allocated' = data_offset
           ELSE /\ life' = Closed(checked)
                /\ UNCHANGED <<opts, discarded, allocated>>
  /\ UNCHANGED <<fid, ondisk, mem, pc, cur, result, returned, rd, ops>>

\* Builder::map(path, fid) with magic_version version, on the file a dropped
\* log left: the arena is mapped read-only, the header is checked, and an
\* ImmutableValueLog is constructed.  The discarded counter is not kept in the
\* file.
map(version) ==
  /\ ondisk
  /\ life.mode = "closed"
  /\ LET checked == check_header(reserved_slice, version)
     IN  IF checked = Opened
           THEN /\ life' = Frozen(Opened)
                /\ opts' = [opts EXCEPT !.magic_version = version]
                /\ discarded' = 0
           ELSE /\ life' = Closed(checked)
                /\ UNCHANGED <<opts, discarded>>
  /\ UNCHANGED <<fid, ondisk, mem, allocated, pc, cur, result, returned, rd, ops>>

\* Builder::map_mut(path, fid) with magic_version version on a path that
\* exists: the header is checked, not written, and a ValueLog is constructed.
map_mut(version) ==
  /\ ondisk
  /\ life.mode = "closed"
  /\ LET checked == check_header(reserved_slice, version)
     IN  IF checked = Opened
           THEN /\ life' = Mutable(Opened)
                /\ opts' = [opts EXCEPT !.magic_version = version]
                /\ discarded' = 0
           ELSE /\ life' = Closed(checked)
                /\ UNCHANGED <<opts, discarded>>
  /\ UNCHANGED <<fid, ondisk, mem, allocated, pc, cur, result, returned, rd, ops>>

\* The values another program leaves in a byte of the header.
HeaderBytes == {0, 1, 2}

\* The header of the closed file is as its creator wrote it.
HeaderIntact ==
  reserved_slice = MAGIC_TEXT \o le_bytes(opts.magic_version, MAGIC_VERSION_SIZE)

\* Byte i of the closed file's header is overwritten from outside.
TamperHeader(i, b) ==
  /\ ondisk
  /\ life.mode = "closed"
  /\ HeaderIntact
  /\ mem[i] # b
  /\ mem' = [mem EXCEPT ![i] = b]
  /\ UNCHANGED <<fid, opts, ondisk, life, allocated, discarded, pc, cur, result, returned, rd, ops>>

\* The logs the runs start from: the id, the backing and the options given to
\* the Builder.
Configuration(id, disk, sync, validate, maximum) ==
  [fid |-> id, ondisk |-> disk, sync |-> sync, validate_checksum |-> validate,
   max_value_size |-> maximum,
   magic_version |-> IF disk THEN CreatorVersion ELSE 0]

Configurations ==
  { Configuration(0, FALSE, TRUE, TRUE, BigMaxValueSize),
    Configuration(MaxId, TRUE, TRUE, TRUE, SmallMaxValueSize),
    Configuration(0, FALSE, TRUE, TRUE, TinyMaxValueSize) }

\* Builder::alloc (unify = false: no header is written) or map_mut on a path
\* that does not exist (the header is written), followed by construct: an
\* empty log.
Init ==
  /\ \E c \in Configurations :
       /\ fid = c.fid
       /\ ondisk = c.ondisk
       /\ opts = [max_value_size |-> c.max_value_size, sync |-> c.sync,
                  validate_checksum |-> c.validate_checksum,
                  magic_version |-> c.magic_version]
       /\ mem = IF c.ondisk
                  THEN write_header([i \in 0..(Capacity - 1) |-> 0], c.magic_version)
                  ELSE [i \in 0..(Capacity - 1) |-> 0]
  /\ life = Mutable(Opened)
  /\ allocated = data_offset
  /\ discarded = 0
  /\ pc = [t \in Writers |-> "idle"]
  /\ cur = [t \in Writers |-> NoCall]
  /\ result = [t \in Writers |-> NoResult]
  /\ returned = <<>>
  /\ rd = NoRead
  /\ ops = 0

Next ==
  \/ \E t \in Writers, v \in Payloads : insert(t, v)
  \/ \E t \in Writers, v \in Payloads : insert_tombstone(t, v)
  \/ \E t \in Writers, vb \in Builders : insert_with(t, vb)
  \/ \E t \in Writers, vb \in Builders : insert_tombstone_with(t, vb)
  \/ \E t \in Writers, v \in Strings, e \in BOOLEAN : insert_generic(t, v, e)
  \/ \E t \in Writers, v \in Strings, e \in BOOLEAN : insert_generic_tombstone(t, v, e)
  \/ \E t \in Writers : Fill(t)
  \/ \E t \in Writers : Checksum(t)
  \/ \E t \in Writers : Flush(t)
  \/ \E t \in Writers : Commit(t)
  \/ \E t \in Writers : Handoff(t)
  \/ \E i \in 1..Len(returned) : Read(returned[i].ptr)
  \/ \E i \in 1..Len(returned) : ReadGeneric(returned[i].ptr)

Spec == Init /\ [][Next]_vars

\* -------------------------------------------------- reads of any pointer
\* The pointers a caller can hand to read: the id of this log or of another,
\* an offset on either side of the header, the data region and the capacity,
\* an empty or a non-empty size.
ProbeOffsets == {0, data_offset - 1, data_offset, data_offset + 1, Capacity}
ProbePointers ==
  {ValuePointer(id, o, n) : id \in {0, MaxId}, o \in ProbeOffsets, n \in {0, 1}}

\* The plain inserts of one writer, and readers that read whatever pointer
\* they hold.
ProbeWriter == "w1"
NextProbe ==
  \/ \E v \in Payloads : insert(ProbeWriter, v)
  \/ Fill(ProbeWriter)
  \/ Checksum(ProbeWriter)
  \/ Flush(ProbeWriter)
  \/ Commit(ProbeWriter)
  \/ Handoff(ProbeWriter)
  \/ \E p \in ProbePointers : Read(p)
  \/ \E p \in ProbePointers : ReadGeneric(p)

SpecProbe == Init /\ [][NextProbe]_vars

\* ------------------------------------------------------------ properties
\* What a reader holds after a successful read of a record with these bytes:
\* the slice from read, or its view from read_generic.
Got(bytes) == {ReadOk(bytes), ReadRef(from_slice(bytes))}

\* The pointers the inserts have returned so far, each with the bytes its
\* builder wrote: those still in the hands of the writer and those sent on.
Committed ==
  {returned[i] : i \in 1..Len(returned)}
    \cup {Sent(result[t].ptr, result[t].given) : t \in {w \in Writers : result[w].kind = "Ok"}}

\* The builder of s wrote all the bytes of its size hint.
Filled(s) == Len(s.given) = s.ptr.size

\* The writers between their allocation and their return.
InFlight == {t \in Writers : pc[t] \in {"fill", "cksum", "flush", "commit"}}

\* The records of the log, each tagged with where it is known from: a pointer
\* sent on, a pointer just returned, an insert past its allocation.
Records ==
  {[src |-> <<"sent", i>>, offset |-> returned[i].ptr.offset, size |-> returned[i].ptr.size] :
     i \in {j \in 1..Len(returned) : returned[j].ptr.size > 0}}
    \cup {[src |-> <<"ret", t>>, offset |-> result[t].ptr.offset, size |-> result[t].ptr.size] :
            t \in {w \in Writers : result[w].kind = "Ok" /\ result[w].ptr.size > 0}}
    \cup {[src |-> <<"cur", t>>, offset |-> cur[t].offset, size |-> cur[t].size] : t \in InFlight}

\* The step at which writer t's insert returns Ok.
Returns(t) == pc[t] # "done" /\ pc'[t] = "done" /\ result'[t].kind = "Ok"

\* Byte i (1 = least significant) of the number c.
RECURSIVE Shr8(_, _)
Shr8(c, k) == IF k = 0 THEN c ELSE Shr8(c \div 256, k - 1)
ByteOf(c, i) == Shr8(c, i - 1) % 256

\* The payload of the record s: the bytes its builder wrote, followed by the
\* bytes of its size hint that the builder left as the allocation gave them.
Payload(s) == s.given \o Zeros(s.ptr.size - Len(s.given))

\* What holds of the records whose builder wrote all the bytes of its size
\* hint: with validate_checksum on, reading their pointer gives Ok with the
\* bytes written, in every later state, whatever was inserted since.
ReadReturnsWritten ==
  opts.validate_checksum =>
    \A s \in Committed : Filled(s) => read(s.ptr.offset, s.ptr.size) = ReadOk(s.given)

\* C1: with validate_checksum on, reading any pointer an insert of any variant
\* has returned gives Ok with exactly the payload of that insert, in every
\* later state, whatever was inserted since.
C1_ReadReturnsInserted ==
  opts.validate_checksum =>
    \A s \in Committed : read(s.ptr.offset, s.ptr.size) = ReadOk(Payload(s))

\* A state of ReadReturnsWritten: two non-empty records were inserted and sent on, and the first
\* was read back after the second.
C1_Witness ==
  /\ Len(returned) = 2
  /\ returned[1].ptr.size > 0 /\ Filled(returned[1])
  /\ returned[2].ptr.size > 0
  /\ rd # NoRead /\ rd.ptr = returned[1].ptr /\ rd.res = ReadOk(returned[1].given)

\* C2 as stated: every successful insert returns a pointer with the size of
\* the payload, an offset at or after data_offset and a record end within the
\* capacity.
C2_Original ==
  \A t \in Writers : result[t].kind = "Ok" =>
    /\ result[t].ptr.size = result[t].hint
    /\ result[t].ptr.offset >= data_offset
    /\ result[t].ptr.offset + result[t].ptr.size + CHECKSUM_LEN <= Capacity

\* C2 amended: a successful insert of a non-empty payload returns a pointer
\* with the size of the payload, an offset at or after data_offset and a
\* record end within the capacity; a successful insert of an empty payload
\* returns the zero pointer {id, 0, 0}.
C2_PointerOfInsert ==
  \A t \in Writers : result[t].kind = "Ok" =>
    /\ result[t].ptr.size = result[t].hint
    /\ result[t].hint > 0 =>
         /\ result[t].ptr.offset >= data_offset
         /\ result[t].ptr.offset + result[t].ptr.size + CHECKSUM_LEN <= Capacity
    /\ result[t].hint = 0 => result[t].ptr = ValuePointer(fid, 0, 0)

\* C2 witness: an insert of a non-empty payload has just returned a pointer
\* whose record ends exactly at the capacity.
C2_Witness ==
  \E t \in Writers :
    /\ pc[t] = "done" /\ result[t].kind = "Ok" /\ result[t].hint > 0
    /\ result[t].ptr.offset + result[t].ptr.size + CHECKSUM_LEN = Capacity

\* C3: the byte ranges [offset, offset + size + 8) of any two records of
\* non-empty inserts are disjoint, at every point of every interleaving of the
\* two inserts' allocate, fill, checksum, flush and commit steps (records of
\* inserts still running and of inserts that returned alike).
C3_RecordsDisjoint ==
  \A a, b \in Records : a.src # b.src =>
    \/ a.offset + a.size + CHECKSUM_LEN <= b.offset
    \/ b.offset + b.size + CHECKSUM_LEN <= a.offset

\* C3 witness: both writers are inside an insert of a non-empty payload at the
\* same time, past their fill and checksum steps and about to commit.
C3_Witness ==
  /\ \A t \in Writers : pc[t] = "commit" /\ cur[t].size > 0
  /\ \E a, b \in Records : a.src # b.src

\* C4: what a reader got from read for a pointer it received after the insert
\* had returned is Ok with the bytes given to that insert, wherever the other
\* writers were in their own inserts when it read.
C4_HandedOffReadsOk ==
  rd # NoRead =>
    \A i \in 1..Len(returned) :
      returned[i].ptr = rd.ptr => rd.res \in Got(Payload(returned[i]))

\* What holds of the records whose builder wrote all the bytes of its size
\* hint: a reader that got their pointer after the insert had returned reads
\* Ok with the bytes written, wherever the other writers are.
HandedOffWrittenReadsOk ==
  rd # NoRead =>
    \A i \in 1..Len(returned) :
      (returned[i].ptr = rd.ptr /\ Filled(returned[i])) => rd.res \in Got(returned[i].given)

\* A state of HandedOffWrittenReadsOk: a reader has read a non-empty record sent to it while another
\* writer is between its allocation and its commit.
C4_Witness ==
  /\ rd # NoRead /\ rd.ptr.size > 0 /\ rd.res.kind = "Ok"
  /\ \E t \in Writers : pc[t] \in {"fill", "cksum", "flush"}

\* C5: every non-empty record already returned to a caller lies between
\* data_offset and the allocated mark, in every reachable state, also after
\* other inserts failed and rolled their allocations back.
C5_ReturnedWithinAllocated ==
  \A s \in Committed : s.ptr.size > 0 =>
    /\ data_offset <= s.ptr.offset
    /\ s.ptr.offset + s.ptr.size + CHECKSUM_LEN <= allocated

\* C5 witness: a record was returned, a later insert failed and rolled back,
\* and the allocated mark is exactly at the end of the returned record.
C5_Witness ==
  /\ Len(returned) = 1 /\ returned[1].ptr.size > 0
  /\ returned[1].ptr.offset + returned[1].ptr.size + CHECKSUM_LEN = allocated
  /\ \E t \in Writers : pc[t] = "done" /\ result[t].kind \in {"EncodeError", "IO"}

\* C6 as stated: the offset of every pointer an insert returns is greater than
\* the offset of every pointer returned before it.
C6_Original ==
  [][\A t \in Writers : Returns(t) =>
       \A s \in Committed : s.ptr.offset < result'[t].ptr.offset]_vars

\* C6 amended: an insert of a non-empty payload that allocates after another
\* non-empty insert has returned is given an offset beyond that record, and
\* the pointer it returns carries the offset it was given; empty inserts
\* return offset 0 and inserts that overlap in time may return in either order.
C6_LaterInsertsHigher ==
  [][\A t \in Writers :
       /\ (pc[t] = "idle" /\ pc'[t] = "fill") =>
            \A s \in Committed : s.ptr.size > 0 =>
              cur'[t].offset >= s.ptr.offset + s.ptr.size + CHECKSUM_LEN
       /\ (pc[t] = "commit" /\ pc'[t] = "done") =>
            /\ result'[t].kind = "Ok"
            /\ result'[t].ptr.offset = cur[t].offset]_vars

\* C6 witness: two non-empty inserts returned one after the other, the second
\* with the higher offset.
C6_Witness ==
  /\ Len(returned) = 1 /\ returned[1].ptr.size > 0
  /\ \E t \in Writers :
       /\ pc[t] = "done" /\ result[t].kind = "Ok" /\ result[t].ptr.size > 0
       /\ result[t].ptr.offset > returned[1].ptr.offset

\* C7: for every returned pointer p of a non-empty insert the 8 bytes at
\* [p.offset + p.size, p.offset + p.size + 8) are, least significant byte
\* first, the checksumer's value of exactly the p.size bytes at p.offset.
C7_TrailerIsChecksum ==
  \A s \in Committed : s.ptr.size > 0 =>
    \A i \in 1..CHECKSUM_LEN :
      mem[s.ptr.offset + s.ptr.size + i - 1]
        = ByteOf(checksum(get_bytes(mem, s.ptr.offset, s.ptr.size)), i)

\* What holds of the records whose builder wrote all the bytes of its size
\* hint: the 8 bytes after the payload are the checksum of the payload.
TrailerOfWrittenIsChecksum ==
  \A s \in Committed : (s.ptr.size > 0 /\ Filled(s)) =>
    \A i \in 1..CHECKSUM_LEN :
      mem[s.ptr.offset + s.ptr.size + i - 1]
        = ByteOf(checksum(get_bytes(mem, s.ptr.offset, s.ptr.size)), i)

\* A state of TrailerOfWrittenIsChecksum: an insert of a two-byte payload has just returned and its
\* checksum has a non-zero second byte.
C7_Witness ==
  \E t \in Writers :
    /\ pc[t] = "done" /\ result[t].kind = "Ok" /\ result[t].ptr.size = 2
    /\ Len(result[t].given) = 2
    /\ mem[result[t].ptr.offset + result[t].ptr.size + 1] # 0

\* C8: an insert call of any variant with size 0 returns Ok{id, 0, 0} in one
\* step that leaves allocated, discarded and every arena byte as they were and
\* never reaches the fill or checksum step.
C8_EmptyInsertNoEffect ==
  [][\A t \in Writers, err \in BOOLEAN, tomb \in BOOLEAN :
       (pc[t] = "idle" /\ pc'[t] # "idle" /\ insert_in(t, ValueBuilder(0, <<>>, err), tomb)) =>
         /\ result'[t] = Ok(ValuePointer(fid, 0, 0), <<>>, 0)
         /\ pc'[t] = "done"
         /\ mem' = mem /\ allocated' = allocated /\ discarded' = discarded
         /\ cur' = cur]_vars

\* C8 witness: an empty insert returned the zero pointer on a log on which
\* bytes are allocated.
C8_Witness ==
  /\ allocated > data_offset
  /\ \E t \in Writers :
       /\ pc[t] = "done" /\ result[t] = Ok(ValuePointer(fid, 0, 0), <<>>, 0)

\* C9 as stated: a read of a pointer whose id is not the log's id returns
\* IdMismatch, on the raw and the generic read, whatever its offset and size.
C9_IdMismatch ==
  (rd # NoRead /\ rd.ptr.id # fid) => rd.res.kind = "IdMismatch"

Digit == 256 * 256
Wide(hi, lo) == [hi |-> hi, lo |-> lo]
WideOf(n) == Wide(n \div Digit, n % Digit)
WideAdd(a, b) ==
  LET lo == a.lo + b.lo
  IN  Wide(a.hi + b.hi + (lo \div Digit), lo % Digit)
WideLess(a, b) == a.hi < b.hi \/ (a.hi = b.hi /\ a.lo < b.lo)
\* The value as a number of the model; only for values below 2^16.
Narrow(a) == a.lo

\* `x as u32` of a usize x: the low 32 bits.
as_u32(a) == Wide(a.hi % Digit, a.lo)

\* u32::MAX
U32_MAX == Wide(Digit - 1, Digit - 1)

\* Reader::read(offset, len) on u32 arguments with 64-bit usize arithmetic:
\* the shortcut, the two bounds checks with the error they build, and past
\* them (where offset and len are below the capacity) the rest of read.
read_u32(offset, len) ==
  IF offset = WideOf(0) /\ len = WideOf(0) THEN ReadOk(<<>>)
  ELSE IF \/ WideLess(offset, WideOf(data_offset))
          \/ WideLess(WideOf(allocated), WideAdd(WideAdd(offset, len), WideOf(CHECKSUM_LEN)))
    THEN out_of_bounds(offset, as_u32(WideAdd(len, WideOf(CHECKSUM_LEN))),
                       data_offset, allocated)
  ELSE read(Narrow(offset), Narrow(len))

\* A reader calls read with any u32 offset and length.
ReadU32(offset, len) ==
  /\ IsReadable
  /\ rd' = [ptr |-> ValuePointer(fid, offset, len), res |-> read_u32(offset, len)]
  /\ UNCHANGED <<fid, opts, ondisk, life, mem, allocated, discarded, pc, cur, result, returned, ops>>

\* The offsets and lengths the readers try: around the header, the data
\* region and the top of the u32 range.
WideOffsets ==
  {WideOf(0), WideOf(data_offset - 1), WideOf(data_offset), WideOf(data_offset + 1),
   WideOf(Capacity), U32_MAX}
WideLens ==
  {WideOf(0), WideOf(1), WideOf(2),
   Wide(Digit - 1, Digit - 1 - CHECKSUM_LEN), Wide(Digit - 1, Digit - CHECKSUM_LEN), U32_MAX}

NextU32 ==
  \/ \E v \in Payloads : insert(ProbeWriter, v)
  \/ Fill(ProbeWriter)
  \/ Checksum(ProbeWriter)
  \/ Flush(ProbeWriter)
  \/ Commit(ProbeWriter)
  \/ Handoff(ProbeWriter)
  \/ \E o \in WideOffsets, n \in WideLens : ReadU32(o, n)

SpecU32 == Init /\ [][NextU32]_vars

\* C11 as stated: a read with size > 0 returns OutOfBounds{offset, len: size +
\* 8, data_offset, end_offset: allocated} if and only if offset < data_offset
\* or offset + size + 8 > allocated, the sums taken without wraparound, for
\* every offset and size of the u32 range.
C11_OutOfBoundsIff ==
  [][(rd' # rd /\ rd'.ptr.size # WideOf(0)) =>
       LET p == rd'.ptr
           total == WideAdd(p.size, WideOf(CHECKSUM_LEN))
           outside == \/ WideLess(p.offset, WideOf(data_offset))
                      \/ WideLess(WideOf(allocated), WideAdd(p.offset, total))
       IN  /\ outside => rd'.res = out_of_bounds(p.offset, total, data_offset, allocated)
           /\ ~outside => rd'.res.kind # "OutOfBounds"]_vars

\* ------------------------------------------------------ corrupted records
\* The bytes a successful insert left in the arena for s: the payload and the
\* little-endian checksum of it.
Expected(s) == s.given \o to_le_bytes(checksum(s.given))

\* The bytes now stored in the record of s.
Stored(s) == get_bytes(mem, s.ptr.offset, s.ptr.size + CHECKSUM_LEN)

\* The number of bytes of the record of s that differ from what was inserted.
DiffCount(s) ==
  LET stored == Stored(s)
      expected == Expected(s)
  IN  Cardinality({k \in 1..(s.ptr.size + CHECKSUM_LEN) : stored[k] # expected[k]})

\* No record of a returned pointer is damaged.
Undamaged ==
  \A j \in 1..Len(returned) : returned[j].ptr.size > 0 => DiffCount(returned[j]) = 0

\* The values a fault writes over a byte.
CorruptBytes == {0, 1, 2, 3, 255}

\* A fault outside the log (the medium, another process on the mapped file)
\* changes byte k of the record of the i-th returned pointer to b.
Corrupt(i, k, b) ==
  /\ returned[i].ptr.size > 0
  /\ k < returned[i].ptr.size + CHECKSUM_LEN
  /\ mem[returned[i].ptr.offset + k] # b
  /\ mem' = [mem EXCEPT ![returned[i].ptr.offset + k] = b]
  /\ UNCHANGED <<fid, opts, ondisk, life, allocated, discarded, pc, cur, result, returned, rd, ops>>

\* The inserts of one writer, one fault in a run, and readers.
NextCorrupt ==
  \/ \E v \in Payloads : insert(ProbeWriter, v)
  \/ Fill(ProbeWriter)
  \/ Checksum(ProbeWriter)
  \/ Flush(ProbeWriter)
  \/ Commit(ProbeWriter)
  \/ Handoff(ProbeWriter)
  \/ /\ Undamaged
     /\ \E i \in 1..Len(returned), k \in 0..(MaxLen + CHECKSUM_LEN - 1), b \in CorruptBytes :
          Corrupt(i, k, b)
  \/ \E i \in 1..Len(returned) : Read(returned[i].ptr)

SpecCorrupt == Init /\ [][NextCorrupt]_vars

\* C12: with validate_checksum on, once a single byte of the record of a
\* returned pointer p (a payload byte or a byte of the stored checksum) has
\* been changed, read(p.offset, p.size) returns ChecksumMismatch.
C12_CorruptionDetected ==
  opts.validate_checksum =>
    \A i \in 1..Len(returned) :
      (returned[i].ptr.size > 0 /\ DiffCount(returned[i]) = 1) =>
        read(returned[i].ptr.offset, returned[i].ptr.size) = checksum_mismatch

\* C12 witness: a reader got ChecksumMismatch for a two-byte record of which
\* one byte of the stored checksum, above its lowest byte, was changed.
C12_Witness ==
  /\ rd # NoRead /\ rd.res = checksum_mismatch /\ rd.ptr.size = 2
  /\ \E i \in 1..Len(returned) :
       /\ returned[i].ptr = rd.ptr
       /\ DiffCount(returned[i]) = 1
       /\ \E k \in 4..(2 + CHECKSUM_LEN) : Stored(returned[i])[k] # Expected(returned[i])[k]

\* ------------------------------------------------- the calls of one writer
\* Slice lengths that do not fit in u32.  On a 64-bit target a slice can be
\* that long; the lengths are multiples of 2^32, for which the closure that
\* copies the slice is never reached.
HugeLens == {Wide(Digit, 0), Wide(2 * Digit, 0)}

\* Writer::insert / insert_tombstone of a slice of n bytes, n given as a wide
\* number: `ValueBuilder::new(value.len() as u32, ..)`, and for the tombstone
\* `increase_discarded(value.len() as u32)`.
insert_slice(t, n, tomb) ==
  /\ as_u32(n) = WideOf(0)
  /\ insert_in(t, ValueBuilder(Narrow(as_u32(n)), <<>>, FALSE), tomb)

\* WriterExt::insert_generic / insert_generic_tombstone of a value whose
\* encoding has n bytes, n given as a wide number: the size hint is
\* `encoded_len as u32`, and the closure, which sets the buffer's length and
\* encodes, is never reached for these lengths.
insert_generic_long(t, n, tomb) ==
  /\ as_u32(n) = WideOf(0)
  /\ insert_in(t, ValueBuilder(Narrow(as_u32(n)), <<>>, FALSE), tomb)

\* One writer making calls of all six insert variants, and readers.
NextCalls ==
  \/ \E n \in HugeLens, tomb \in BOOLEAN : insert_slice(ProbeWriter, n, tomb)
  \/ \E n \in HugeLens, tomb \in BOOLEAN : insert_generic_long(ProbeWriter, n, tomb)
  \/ \E v \in Payloads : insert(ProbeWriter, v)
  \/ \E v \in Payloads : insert_tombstone(ProbeWriter, v)
  \/ \E vb \in Builders : insert_with(ProbeWriter, vb)
  \/ \E vb \in Builders : insert_tombstone_with(ProbeWriter, vb)
  \/ \E v \in Strings, e \in BOOLEAN : insert_generic(ProbeWriter, v, e)
  \/ \E v \in Strings, e \in BOOLEAN : insert_generic_tombstone(ProbeWriter, v, e)
  \/ Fill(ProbeWriter)
  \/ Checksum(ProbeWriter)
  \/ Flush(ProbeWriter)
  \/ Commit(ProbeWriter)
  \/ Handoff(ProbeWriter)
  \/ \E i \in 1..Len(returned) : Read(returned[i].ptr)
  \/ \E i \in 1..Len(returned) : ReadGeneric(returned[i].ptr)

SpecCalls == Init /\ [][NextCalls]_vars

\* The step is a call of insert_in by t with the builder vb.
Calls(t, vb, tomb) == pc[t] = "idle" /\ pc'[t] # "idle" /\ insert_in(t, vb, tomb)

\* The step is a call of insert_generic or insert_generic_tombstone by t with a
\* value whose encoding has n bytes.
CallsGenericLong(t, n, tomb) ==
  pc[t] = "idle" /\ pc'[t] # "idle" /\ insert_generic_long(t, n, tomb)

\* The step is a call of insert or insert_tombstone by t with a slice of n bytes.
CallsSlice(t, n, tomb) == pc[t] = "idle" /\ pc'[t] # "idle" /\ insert_slice(t, n, tomb)

\* The size cap on size hints, which are u32: a call with a size hint of n > 0
\* returns ValueTooLarge{size: n + 8, maximum: max_value_size} exactly when
\* n + 8 > max_value_size, so that a size hint of exactly max_value_size is
\* rejected.
SizeHintCapped ==
  [][\A t \in Writers, vb \in Builders, tomb \in BOOLEAN :
       (vb.size > 0 /\ Calls(t, vb, tomb)) =>
         /\ (result'[t].kind = "ValueTooLarge") <=> (vb.size + CHECKSUM_LEN > opts.max_value_size)
         /\ result'[t].kind = "ValueTooLarge" =>
              result'[t] = value_too_large(vb.size + CHECKSUM_LEN, opts.max_value_size)]_vars

\* C13: an insert of a payload of n > 0 bytes fails with ValueTooLarge{size:
\* n + 8, maximum: max_value_size} exactly when n + 8 > max_value_size; this
\* for size hints and for slices of every length, those of 2^32 bytes and more
\* included, whose n + 8 exceeds every max_value_size.
C13_ValueTooLargeIff ==
  [][/\ \A t \in Writers, vb \in Builders, tomb \in BOOLEAN :
          (vb.size > 0 /\ Calls(t, vb, tomb)) =>
            /\ (result'[t].kind = "ValueTooLarge")
                 <=> (vb.size + CHECKSUM_LEN > opts.max_value_size)
            /\ result'[t].kind = "ValueTooLarge" =>
                 result'[t] = value_too_large(vb.size + CHECKSUM_LEN, opts.max_value_size)
     /\ \A t \in Writers, n \in HugeLens, tomb \in BOOLEAN :
          (WideLess(WideOf(opts.max_value_size), WideAdd(n, WideOf(CHECKSUM_LEN)))
             /\ CallsSlice(t, n, tomb)) =>
            result'[t].kind = "ValueTooLarge"]_vars

\* C14: a call with a payload of n > 0 bytes that passes the size cap returns
\* InsufficientSpace{requested: n + 8, available} exactly when fewer than
\* n + 8 bytes are left between allocated and the capacity; available is what
\* is left, at most capacity - data_offset.
C14_InsufficientSpaceIff ==
  [][\A t \in Writers, vb \in Builders, tomb \in BOOLEAN :
       (vb.size > 0 /\ vb.size + CHECKSUM_LEN <= opts.max_value_size /\ Calls(t, vb, tomb)) =>
         /\ (result'[t].kind = "InsufficientSpace")
              <=> (Capacity - allocated < vb.size + CHECKSUM_LEN)
         /\ result'[t].kind = "InsufficientSpace" =>
              /\ result'[t] = from_insufficient_space(vb.size + CHECKSUM_LEN,
                                                      Capacity - allocated)
              /\ result'[t].available <= Capacity - data_offset]_vars

\* C14 witness: a two-byte payload was refused with requested = 10 although
\* some bytes were left.
C14_Witness ==
  \E t \in Writers :
    /\ pc[t] = "done" /\ result[t].kind = "InsufficientSpace"
    /\ result[t].requested = 2 + CHECKSUM_LEN
    /\ result[t].available > 0

\* C15: the step of an insert that fails with ValueTooLarge or
\* InsufficientSpace leaves allocated, discarded, every arena byte and all the
\* pointers handed out as they were, and so does the caller's dropping of the
\* error: what later inserts and reads see is what they would have seen
\* without the call.
C15_FailedInsertNoEffect ==
  [][\A t \in Writers :
       /\ (pc[t] = "idle" /\ pc'[t] = "done"
             /\ result'[t].kind \in {"ValueTooLarge", "InsufficientSpace"}) =>
            /\ mem' = mem /\ allocated' = allocated /\ discarded' = discarded
            /\ cur' = cur /\ returned' = returned /\ rd' = rd
       /\ (pc[t] = "done" /\ pc'[t] = "idle"
             /\ result[t].kind \in {"ValueTooLarge", "InsufficientSpace"}) =>
            /\ mem' = mem /\ allocated' = allocated /\ discarded' = discarded
            /\ cur' = cur /\ returned' = returned /\ rd' = rd]_vars

\* C15 witness: after an insert failed with ValueTooLarge on a log that holds a
\* record, that record was read back.
C15_Witness ==
  /\ Len(returned) = 1 /\ returned[1].ptr.size > 0
  /\ \E t \in Writers : pc[t] = "done" /\ result[t].kind = "ValueTooLarge"
  /\ rd # NoRead /\ rd.res.kind = "Ok"

\* --------------------------------------------- inserts that fail half-way
\* The step is the one in which t's builder returns its error.
BuilderFails(t) == pc[t] = "fill" /\ cur[t].err /\ pc'[t] = "done"

\* The bytes of every record returned so far are the same after the step.
ReturnedBytesKept ==
  \A s \in Committed :
    get_bytes(mem', s.ptr.offset, s.ptr.size) = get_bytes(mem, s.ptr.offset, s.ptr.size)

\* The allocation of t's insert is still the last one of the arena.
IsLastAllocation(t) == allocated = cur[t].offset + cur[t].size + CHECKSUM_LEN

FlushFails(t) == pc[t] = "flush" /\ pc'[t] = "done"

\* C17: on a file-backed log with sync = true, when the flush of an insert
\* fails the insert returns an IO error and no pointer, the buffer is dropped
\* without having been detached, and its allocation is rolled back: allocated
\* moves back to the allocation's offset while the allocation is the last one.
\* The flush is made on such logs only.
C17_FlushErrorRollsBack ==
  [][\A t \in Writers :
       /\ FlushFails(t) =>
            /\ opts.sync /\ ondisk
            /\ result'[t] = IOError
            /\ returned' = returned
            /\ ~cur[t].detached
            /\ cur'[t] = NoCall
            /\ IsLastAllocation(t) => allocated' = cur[t].offset /\ discarded' = discarded
       /\ (pc[t] = "done" /\ pc'[t] = "idle" /\ result[t] = IOError) =>
            returned' = returned]_vars

\* C17 witness: the flush of the only insert of a file-backed log has failed:
\* the insert returned the IO error, nothing is allocated and no pointer was
\* handed out.
C17_Witness ==
  \E t \in Writers :
    /\ pc[t] = "done" /\ result[t] = IOError
    /\ opts.sync /\ ondisk
    /\ allocated = data_offset /\ discarded = 0
    /\ returned = <<>>

\* The step is the one in which t's insert commits and returns its pointer.
Commits(t) == pc[t] = "commit" /\ pc'[t] = "done"

\* C18: on a file-backed log with sync = true an insert that succeeds has, when
\* it returns, written out the first page, which holds the arena's header, and
\* every page of its record [offset, offset + size + 8).
C18_HeaderAndRangeFlushed ==
  [][\A t \in Writers :
       (Commits(t) /\ opts.sync /\ ondisk) =>
         /\ flush_range(cur[t].offset, cur[t].size + CHECKSUM_LEN) \subseteq cur[t].synced
         /\ flush_range(0, HEADER_SIZE) \subseteq cur[t].synced]_vars

\* The part of C18 about the record: its pages are written out before the
\* insert returns.
RangeFlushed ==
  [][\A t \in Writers :
       (Commits(t) /\ opts.sync /\ ondisk) =>
         flush_range(cur[t].offset, cur[t].size + CHECKSUM_LEN) \subseteq cur[t].synced]_vars

\* ------------------------------------------------------ the discarded counter
\* Tombstone inserts with a size hint, which is u32: the step that returns the
\* pointer of a tombstone of n bytes adds exactly n to discarded, and no step
\* lowers discarded while a tombstone insert is between its call and its
\* return, so that discarded ends at least n above where the call found it.
SizeHintDiscarded ==
  [][/\ \A t \in Writers : (Commits(t) /\ cur[t].tomb) => discarded' = discarded + cur[t].size
     /\ \A t \in Writers, vb \in Builders :
          (vb.size = 0 /\ Calls(t, vb, TRUE)) => discarded' = discarded
     /\ (\E t \in InFlight : cur[t].tomb) => discarded' >= discarded]_vars

\* C19: every successful tombstone insert of a payload of n bytes ends with
\* discarded at least n above its value before the call, and exactly n above it
\* when nothing else runs in between; this for size hints and for slices of
\* every length, those of 2^32 bytes and more included.
C19_TombstoneDiscards ==
  [][/\ \A t \in Writers : (Commits(t) /\ cur[t].tomb) => discarded' = discarded + cur[t].size
     /\ \A t \in Writers, vb \in Builders :
          (vb.size = 0 /\ Calls(t, vb, TRUE)) => discarded' = discarded
     /\ (\E t \in InFlight : cur[t].tomb) => discarded' >= discarded
     /\ \A t \in Writers, n \in HugeLens :
          (CallsSlice(t, n, TRUE) /\ result'[t].kind = "Ok") =>
            ~WideLess(WideOf(discarded'), WideAdd(WideOf(discarded), n))]_vars

\* C20: no step of any operation lowers the discarded counter.
C20_DiscardedMonotonic == [][discarded' >= discarded]_vars

\* C20 witness: discarded has grown twice, by a tombstone and by the bytes of
\* an abandoned allocation, and a read has been made since.
C20_Witness ==
  /\ discarded > MaxLen + CHECKSUM_LEN
  /\ \E t \in Writers : result[t] = EncodeError
  /\ rd # NoRead

\* ------------------------------------------------------------ the log's id
\* C21: every pointer an insert has returned, the zero pointer of an empty
\* insert included, carries the id of the log, and no step changes the id of
\* the log.
C21_PointerCarriesLogId ==
  [][/\ fid' = fid
     /\ \A s \in Committed' : s.ptr.id = fid']_vars

\* C21 witness: a log whose id is not the default one has returned the zero
\* pointer and the pointer of a record, both with its id.
C21_Witness ==
  /\ fid = MaxId
  /\ \E s \in Committed : s.ptr = ValuePointer(MaxId, 0, 0)
  /\ \E s \in Committed : s.ptr.size > 0 /\ s.ptr.id = MaxId

\* ------------------------------------------------- drop, reopen and read
\* A file-backed log is filled by one writer and dropped; the file is opened
\* again, read-only or read-write, by a Builder with some magic_version; the
\* readers read from the frozen log.
NextReopen ==
  \/ \E v \in Payloads : insert(ProbeWriter, v)
  \/ Fill(ProbeWriter)
  \/ Checksum(ProbeWriter)
  \/ Flush(ProbeWriter)
  \/ Commit(ProbeWriter)
  \/ Handoff(ProbeWriter)
  \/ drop_log
  \/ \E i \in 0..(HEADER_SIZE - 1), b \in HeaderBytes : TamperHeader(i, b)
  \/ \E version \in Versions : map(version)
  \/ \E version \in Versions : map_mut(version)
  \/ \E i \in 1..Len(returned) : life.mode = "frozen" /\ Read(returned[i].ptr)
  \/ \E i \in 1..Len(returned) : life.mode = "frozen" /\ ReadGeneric(returned[i].ptr)

SpecReopen == Init /\ [][NextReopen]_vars

\* C22: no step taken while the log is frozen, by the log or by a clone of it,
\* changes allocated or a byte of the arena: they stay what they were when the
\* file was opened.
C22_FrozenNeverChanges ==
  [][life.mode = "frozen" =>
       mem' = mem /\ allocated' = allocated /\ discarded' = discarded]_vars

\* C22 witness: a frozen log that holds a record has been read.
C22_Witness ==
  /\ life.mode = "frozen"
  /\ allocated > data_offset
  /\ rd # NoRead /\ rd.res.kind = "Ok" /\ rd.ptr.size > 0

\* The step is an open of the closed file, read-only or read-write, by a
\* Builder with magic_version version.
Opens(version) == life.mode = "closed" /\ life' # life /\ (map(version) \/ map_mut(version))

\* C23: an open of an existing file fails with 'bad magic text' when bytes
\* 0..6 are not "valog!"; otherwise it fails with 'bad magic version' when the
\* little-endian u16 at bytes 6..8 is not the Builder's magic_version;
\* otherwise it succeeds.  A log is constructed in the last case only.
C23_HeaderVerified ==
  [][\A version \in Versions :
       Opens(version) =>
         LET text_ok == \A i \in 0..(MAGIC_TEXT_SIZE - 1) : mem[i] = MAGIC_TEXT[i + 1]
             stored == mem[MAGIC_TEXT_SIZE] + 256 * mem[MAGIC_TEXT_SIZE + 1]
         IN  /\ life'.open = IF ~text_ok THEN bad_magic_text
                             ELSE IF stored # version THEN bad_magic_version
                             ELSE Opened
             /\ (life'.mode # "closed") <=> (text_ok /\ stored = version)]_vars

\* C23 witness: the file begins with the magic text and holds another version
\* than the Builder's, and the open has failed on the version.
C23_Witness ==
  /\ life = Closed(bad_magic_version)
  /\ SubSeq(reserved_slice, 1, MAGIC_TEXT_SIZE) = MAGIC_TEXT

\* The step is a read-only open, with the magic_version of the log that wrote
\* it, of the file that log left when it was dropped.
Reopens == life.mode = "closed" /\ HeaderIntact /\ life' # life /\ map(opts.magic_version)

\* The same, with the writer inserting through builders as well.
NextReopenWith ==
  \/ NextReopen
  \/ \E vb \in Builders : insert_with(ProbeWriter, vb)

SpecReopenWith == Init /\ [][NextReopenWith]_vars

\* C24: the read-only reopen, with the same magic_version, of the file a
\* dropped map_mut log left passes the header check, and on the reopened log
\* the read of every pointer the inserts returned gives exactly the payload
\* inserted.
C24_ReopenRoundTrip ==
  /\ [][Reopens => life' = Frozen(Opened)]_vars
  /\ [](life = Frozen(Opened) =>
          \A s \in Committed : read(s.ptr.offset, s.ptr.size) = ReadOk(Payload(s)))

\* What holds of the reopen: it passes the header check, and the records whose
\* builder wrote all the bytes of its size hint read back from the reopened
\* log as the bytes written.
ReopenReadsWritten ==
  /\ [][Reopens => life' = Frozen(Opened)]_vars
  /\ [](life = Frozen(Opened) =>
          \A s \in Committed : Filled(s) => read(s.ptr.offset, s.ptr.size) = ReadOk(s.given))

\* A state of ReopenReadsWritten: two records were inserted, the log was dropped and reopened
\* read-only, and the second record was read back from the reopened log.
C24_Witness ==
  /\ life = Frozen(Opened)
  /\ Len(returned) = 2
  /\ returned[1].ptr.size > 0 /\ returned[2].ptr.size > 0
  /\ rd # NoRead /\ rd.ptr = returned[2].ptr /\ rd.res = ReadOk(returned[2].given)

GenericRoundTripWithinU32 ==
  \A s \in Committed :
    /\ \A t \in Strings :
         (s.ptr.size = encoded_len(t) /\ s.given = encode(t)) =>
           read_generic(s.ptr.offset, s.ptr.size) = ReadRef(t)
    /\ LET r == read(s.ptr.offset, s.ptr.size)
           g == read_generic(s.ptr.offset, s.ptr.size)
       IN  IF r.kind = "Ok" THEN g = ReadRef(from_slice(r.bytes)) ELSE g = r
    /\ (rd # NoRead /\ rd.ptr = s.ptr /\ Filled(s)) => rd.res \in Got(s.given)

\* C26: for every value, one whose encoding has 2^32 bytes or more included,
\* the pointer a successful insert_generic returned reads back through
\* read_generic as a view of that value, which has as many bytes as the value
\* has; and read_generic is from_slice of what read returns, for the values
\* whose length fits in u32 as stated above.
C26_GenericRoundTrip ==
  /\ []GenericRoundTripWithinU32
  /\ [][\A t \in Writers, n \in HugeLens, tomb \in BOOLEAN :
          (CallsGenericLong(t, n, tomb) /\ result'[t].kind = "Ok") =>
            LET g == read_generic(result'[t].ptr.offset, result'[t].ptr.size)
            IN  g.kind = "Ok" /\ WideOf(Len(g.ref.str)) = n]_vars

\* A state of GenericRoundTripWithinU32: a text of two different characters was inserted and sent on,
\* and a reader got it back from read_generic.
C26_Witness ==
  /\ rd # NoRead /\ rd.res = ReadRef(Str(<<1, 2>>))
  /\ \E i \in 1..Len(returned) : returned[i].ptr = rd.ptr /\ returned[i].given = <<1, 2>>

C28_TombstoneMarked ==
  [][\A t \in Writers :
       (Returns(t) /\ cur[t].tomb) =>
         result'[t].ptr # ValuePointer(fid, cur[t].offset, cur[t].size)]_vars

\* The payload of t's insert is in the arena, and then its checksum after it.
PayloadWritten(t, m) == get_bytes(m, cur[t].offset, Len(cur[t].data)) = cur[t].data
ChecksumWritten(t, m) ==
  get_bytes(m, cur[t].offset + cur[t].size, CHECKSUM_LEN)
    = to_le_bytes(checksum(get_bytes(m, cur[t].offset, Len(cur[t].data))))

\* C29: the steps of one insert come in this order, whatever the other writer
\* does in between: the allocation first (allocated advances by size + 8, no
\* byte below it written); then the fill (the payload is in the arena); then the
\* checksum, written after the payload; then, exactly when the log is
\* file-backed with sync on, the flush; the commit last, and the pointer is
\* returned by the commit only.
C29_StepOrder ==
  [][\A t \in Writers :
       pc'[t] # pc[t] =>
         CASE pc'[t] = "fill" ->
                /\ pc[t] = "idle"
                /\ cur'[t].offset = allocated
                /\ allocated' = allocated + cur'[t].size + CHECKSUM_LEN
                /\ \A i \in DOMAIN mem : i < allocated => mem'[i] = mem[i]
           [] pc'[t] = "cksum" ->
                /\ pc[t] = "fill"
                /\ PayloadWritten(t, mem') /\ allocated' = allocated
           [] pc'[t] = "flush" ->
                /\ pc[t] = "cksum" /\ opts.sync /\ ondisk
                /\ PayloadWritten(t, mem) /\ ChecksumWritten(t, mem')
           [] pc'[t] = "commit" ->
                \/ /\ pc[t] = "flush"
                   /\ PayloadWritten(t, mem) /\ ChecksumWritten(t, mem) /\ mem' = mem
                \/ /\ pc[t] = "cksum" /\ ~(opts.sync /\ ondisk)
                   /\ PayloadWritten(t, mem) /\ ChecksumWritten(t, mem')
           [] pc'[t] = "done" /\ result'[t].kind = "Ok" /\ result'[t].ptr.size > 0 ->
                /\ pc[t] = "commit"
                /\ PayloadWritten(t, mem) /\ ChecksumWritten(t, mem) /\ mem' = mem
                /\ ~cur[t].detached
                /\ (opts.sync /\ ondisk) => cur[t].synced # {}
           [] OTHER -> TRUE]_vars

\* C29 witness: on the file-backed log with sync on an insert of a non-empty
\* payload has gone through all its steps and returned, while the other
\* writer's insert is at its flush.
C29_Witness ==
  /\ ondisk /\ opts.sync
  /\ \E t, u \in Writers :
       /\ pc[t] = "done" /\ result[t].kind = "Ok" /\ result[t].ptr.size > 0
       /\ pc[u] = "flush"

\* ------------------------------------------- reads of inserts in progress
\* Reader::read is a safe method that takes any offset and length, and a log
\* is shared between threads: a reader that walks the log up to the allocated
\* mark reads the record of an insert that has not returned yet.
Scan(t) ==
  /\ t \in InFlight
  /\ Read(ValuePointer(fid, cur[t].offset, cur[t].size))

NextScan ==
  \/ \E t \in Writers, v \in Payloads : insert(t, v)
  \/ \E t \in Writers : Fill(t)
  \/ \E t \in Writers : Checksum(t)
  \/ \E t \in Writers : Flush(t)
  \/ \E t \in Writers : Commit(t)
  \/ \E t \in Writers : Handoff(t)
  \/ \E t \in Writers : Scan(t)
  \/ \E i \in 1..Len(returned) : Read(returned[i].ptr)

SpecScan == Init /\ [][NextScan]_vars

\* The payload of the record of the call c once its builder has run.
Padded(c) == c.data \o Zeros(c.size - Len(c.data))

\* C30 as stated: while inserts are in progress, a read of a record below the
\* allocated mark (one that passes the bounds check) finds the record written:
\* it returns Ok with the payload of the insert, the stored checksum matching.
C30_WrittenBelowAllocated ==
  [][\A t \in Writers :
       (Scan(t) /\ rd'.res.kind # "OutOfBounds") => rd'.res = ReadOk(Padded(cur[t]))]_vars

\* What such reads do give: a read of the record of an insert in progress passes
\* the bounds check from the allocation on; before the fill it gives
\* ChecksumMismatch, or the zeroed payload when the bytes left after it are its
\* checksum; between the fill and the checksum write it gives ChecksumMismatch,
\* or the payload when the bytes left after it are its checksum; from the
\* checksum write on it gives the payload (validate_checksum being on).  A
\* read of a pointer an insert has returned gives Ok with its payload.
InFlightReads ==
  [][/\ \A t \in Writers :
          Scan(t) =>
            /\ rd'.res.kind # "OutOfBounds"
            /\ pc[t] = "fill" => rd'.res \in {checksum_mismatch, ReadOk(Zeros(cur[t].size))}
            /\ pc[t] = "cksum" => rd'.res \in {checksum_mismatch, ReadOk(Padded(cur[t]))}
            /\ pc[t] \in {"flush", "commit"} => rd'.res = ReadOk(Padded(cur[t]))
     /\ \A i \in 1..Len(returned) :
          (Read(returned[i].ptr) /\ Filled(returned[i])) => rd'.res = ReadOk(returned[i].given)]_vars

\* ----------------------------------------------- runs of successful inserts
\* The runs in which every insert has a non-empty payload and succeeds: the
\* call passes the size cap and gets its allocation, and the flush does not
\* fail.
insert_ok(t, value) == Len(value) > 0 /\ insert(t, value) /\ pc'[t] = "fill"
Flush_ok(t) == Flush(t) /\ pc'[t] = "commit"

NextTile ==
  \/ \E t \in Writers, v \in Payloads : insert_ok(t, v)
  \/ \E t \in Writers : Fill(t)
  \/ \E t \in Writers : Checksum(t)
  \/ \E t \in Writers : Flush_ok(t)
  \/ \E t \in Writers : Commit(t)
  \/ \E t \in Writers : Handoff(t)

SpecTile == Init /\ [][NextTile]_vars

\* The end of a record: the byte after its checksum.
EndOf(r) == r.offset + r.size + CHECKSUM_LEN

\* C31: when every insert has a non-empty payload and succeeds, the records
\* (returned or in progress) tile the data region: on a fresh log allocated is
\* data_offset; otherwise one record starts at data_offset, every record starts
\* at data_offset or where another ends, no two start at the same place, and
\* allocated is the end of the last one.
C31_RecordsTile ==
  /\ Records = {} => allocated = data_offset
  /\ Records # {} =>
       /\ \E r \in Records : r.offset = data_offset
       /\ \E r \in Records : EndOf(r) = allocated
       /\ \A r \in Records : EndOf(r) <= allocated
  /\ \A r \in Records :
       r.offset = data_offset \/ \E q \in Records : EndOf(q) = r.offset
  /\ \A r, q \in Records : r.src # q.src => r.offset # q.offset

\* C31 witness: two inserts running at the same time have both returned, and
\* the second record begins where the first ends.
C31_Witness ==
  /\ \A t \in Writers : pc[t] = "done" /\ result[t].kind = "Ok"
  /\ \E r, q \in Records : r.offset = data_offset /\ q.offset = EndOf(r) /\ allocated = EndOf(q)

\* ------------------------------------------------- the order of the checks
\* The calls of SpecCalls, and calls of insert_with and insert_tombstone_with
\* with a size hint as large as the whole arena, which no log has room for.
OversizedHint == Capacity
NextOrder ==
  \/ NextCalls
  \/ \E tomb \in BOOLEAN :
       insert_in(ProbeWriter, ValueBuilder(OversizedHint, <<>>, FALSE), tomb)

SpecOrder == Init /\ [][NextOrder]_vars

UncheckedConfigurations ==
  { Configuration(0, FALSE, TRUE, FALSE, BigMaxValueSize),
    Configuration(MaxId, TRUE, TRUE, FALSE, SmallMaxValueSize) }

InitUnchecked ==
  /\ \E c \in UncheckedConfigurations :
       /\ fid = c.fid
       /\ ondisk = c.ondisk
       /\ opts = [max_value_size |-> c.max_value_size, sync |-> c.sync,
                  validate_checksum |-> c.validate_checksum,
                  magic_version |-> c.magic_version]
       /\ mem = IF c.ondisk
                  THEN write_header([i \in 0..(Capacity - 1) |-> 0], c.magic_version)
                  ELSE [i \in 0..(Capacity - 1) |-> 0]
  /\ life = Mutable(Opened)
  /\ allocated = data_offset
  /\ discarded = 0
  /\ pc = [t \in Writers |-> "idle"]
  /\ cur = [t \in Writers |-> NoCall]
  /\ result = [t \in Writers |-> NoResult]
  /\ returned = <<>>
  /\ rd = NoRead
  /\ ops = 0

SpecUnchecked == InitUnchecked /\ [][NextCorrupt]_vars

\* C33: with validate_checksum off, a read within the bounds (offset at or
\* after data_offset, offset + size + 8 at or below allocated) returns Ok with
\* the size bytes now stored at offset, and no read returns ChecksumMismatch,
\* whatever was changed in the record since the insert.
C33_UncheckedReads ==
  ~opts.validate_checksum =>
    /\ \A o \in data_offset..Capacity, n \in 0..MaxLen :
         o + n + CHECKSUM_LEN <= allocated =>
           read(o, n) = ReadOk([k \in 1..n |-> mem[o + k - 1]])
    /\ rd # NoRead => rd.res.kind # "ChecksumMismatch"

\* C33 witness: with validate_checksum off, a reader got Ok with other bytes
\* than those inserted, from a record whose payload was changed after the
\* insert.
C33_Witness ==
  /\ ~opts.validate_checksum
  /\ rd # NoRead /\ rd.res.kind = "Ok"
  /\ \E i \in 1..Len(returned) :
       /\ rd.ptr = returned[i].ptr /\ returned[i].ptr.size > 0
       /\ rd.res.bytes # returned[i].given
       /\ rd.res.bytes = get_bytes(mem, rd.ptr.offset, rd.ptr.size)

\* ------------------------------------------------------ the builder's call
\* The builder runs in the step that leaves "fill".  EncodeError is the result
\* Err(Either::Left(e)) with the builder's error; ValueTooLarge,
\* InsufficientSpace and IO are Err(Either::Right(Error)).
BuilderRuns(t) == pc[t] = "fill" /\ pc'[t] # "fill"

\* C34: the builder runs once in a call with a size hint above 0 that passed
\* the size cap and got its allocation, and in no other: a call enters "fill"
\* only at its allocation and leaves it by the builder's run; a call that
\* returns at once (empty, ValueTooLarge, InsufficientSpace) writes nothing.
\* The builder's error, and nothing else, comes back as EncodeError (Left);
\* ValueTooLarge and InsufficientSpace come from the call's checks and IO from
\* the flush (Right).
C34_BuilderCalledOnce ==
  [][\A t \in Writers :
       /\ pc'[t] = "fill" /\ pc[t] # "fill" =>
            /\ pc[t] = "idle"
            /\ cur'[t].size > 0
            /\ cur'[t].size + CHECKSUM_LEN <= opts.max_value_size
            /\ cur'[t].offset + cur'[t].size + CHECKSUM_LEN <= Capacity
       /\ BuilderRuns(t) =>
            /\ pc'[t] = IF cur[t].err THEN "done" ELSE "cksum"
            /\ cur[t].err => result'[t] = EncodeError
            /\ ~cur[t].err => result'[t] = result[t]
       /\ (pc[t] = "idle" /\ pc'[t] = "done") =>
            /\ mem' = mem
            /\ result'[t].kind \in {"Ok", "ValueTooLarge", "InsufficientSpace"}
       /\ (pc[t] \in {"cksum", "flush", "commit"} /\ pc'[t] # pc[t]) =>
            /\ pc'[t] # "fill"
            /\ result'[t].kind \in {"none", "Ok", "IO"}
            /\ result'[t].kind = "IO" => pc[t] = "flush"]_vars

\* C34 witness: a builder that wrote a byte returned its error, and the call
\* returned it as the encode error.
C34_Witness ==
  \E t \in Writers :
    /\ pc[t] = "done" /\ result[t] = EncodeError
    /\ mem[data_offset] # 0

\* ------------------------------------------------------------- progress
\* The next step of writer t's insert: insert_in is straight-line code, so a
\* thread that is scheduled takes it.
Step(t) == Fill(t) \/ Checksum(t) \/ Flush(t) \/ Commit(t)

\* Two writer threads, each calling insert_with once with a builder that
\* fills, under-fills or fails; each thread is scheduled again and again (the
\* OS scheduler is fair to a runnable thread, and the flush, an OS call,
\* returns).
NextLive ==
  \/ \E t \in Writers, vb \in Builders : insert_with(t, vb)
  \/ \E t \in Writers : Step(t)

SpecLive == Init /\ [][NextLive]_vars /\ \A t \in Writers : WF_vars(Step(t))

\* C35: an insert that has been called returns: at every point of it the
\* writer's next step can be taken whatever the position of the other writer,
\* and under fair scheduling it reaches its return.
C35_InsertReturns ==
  /\ [](\A t \in InFlight : ENABLED Step(t))
  /\ \A t \in Writers : (t \in InFlight) ~> (pc[t] = "done")

\* C35 witness: an insert has returned Ok while the insert of the other
\* writer, which had allocated before it, is still at its fill.
C35_Witness ==
  \E t, u \in Writers :
    /\ pc[t] = "done" /\ result[t].kind = "Ok" /\ result[t].ptr.size > 0
    /\ pc[u] = "fill" /\ cur[u].offset < result[t].ptr.offset

\* ------------------------------------------------------- the open flags
\* Builder::with_truncate(true).map_mut(path, fid) on a path that exists:
\* `exist` is taken before the file is opened; the open truncates the file to
\* length 0 and the arena extends it to its capacity, all zero, as for a new
\* file; since exist is true the header is checked, not written.
map_mut_truncate(version) ==
  /\ ondisk
  /\ life.mode = "closed"
  /\ LET truncated == [i \in DOMAIN mem |-> 0]
         checked == check_header(get_bytes(truncated, 0, HEADER_SIZE + DefaultReserved), version)
     IN  /\ mem' = truncated
         /\ allocated' = data_offset
         /\ discarded' = 0
         /\ IF checked = Opened
              THEN life' = Mutable(Opened) /\ opts' = [opts EXCEPT !.magic_version = version]
              ELSE life' = Closed(checked) /\ UNCHANGED opts
  /\ UNCHANGED <<fid, ondisk, pc, cur, result, returned, rd, ops>>

NextFlags ==
  \/ NextReopen
  \/ \E version \in Versions : map_mut_truncate(version)

SpecFlags == Init /\ [][NextFlags]_vars

\* The 8 header bytes of the file.
Header(m) == get_bytes(m, 0, HEADER_SIZE)

\* The step is an open of the file, a drop of the log or a step of an insert.
OpensOrInserts == life' # life \/ pc' # pc

\* C36 as stated: once the file exists, every open of it, whatever the open
\* flags, and every step of an insert leave the 8 header bytes as they are.
C36_HeaderWrittenOnce ==
  [][(ondisk /\ OpensOrInserts) => Header(mem') = Header(mem)]_vars

\* The same without the truncate flag: map, map_mut and the inserts leave the
\* header bytes as they are, and the header written at creation stays until a
\* fault from outside changes it.
HeaderKeptWithoutTruncate ==
  [][(ondisk /\ OpensOrInserts /\ ~(\E version \in Versions : map_mut_truncate(version)))
       => Header(mem') = Header(mem)]_vars

\* ---------------------------------------------------- under-filled builders
\* C37 as stated: with validate_checksum on, the read of every pointer a
\* successful insert_with returned succeeds, also when its builder wrote fewer
\* bytes than its size hint.
C37_UnderfilledReadable ==
  opts.validate_checksum =>
    \A s \in Committed : read(s.ptr.offset, s.ptr.size).kind = "Ok"

\* What holds instead: the stored checksum is the digest of the bytes the
\* builder wrote, not of the size bytes read verifies.
ChecksumOverWritten ==
  \A s \in Committed : s.ptr.size > 0 =>
    get_bytes(mem, s.ptr.offset + s.ptr.size, CHECKSUM_LEN) = to_le_bytes(checksum(s.given))

\* ------------------------------------------------------------- append-only
\* The bytes of m in [from, to).
Range(m, from, to) == [i \in from..(to - 1) |-> m[i]]

\* C38: every step of an insert changes bytes of its own record only, from
\* its offset to the end of its checksum: the header, the reserved bytes, and
\* the record of every pointer returned before stay byte for byte as they are,
\* in every step of every writer.
C38_AppendOnly ==
  [][mem' # mem =>
       /\ Range(mem', 0, data_offset) = Range(mem, 0, data_offset)
       /\ \A s \in Committed :
            s.ptr.size > 0 =>
              Range(mem', s.ptr.offset, s.ptr.offset + s.ptr.size + CHECKSUM_LEN)
                = Range(mem, s.ptr.offset, s.ptr.offset + s.ptr.size + CHECKSUM_LEN)
       /\ \A t \in Writers :
            pc'[t] # pc[t] =>
              LET c == IF pc[t] = "idle" THEN cur'[t] ELSE cur[t]
              IN  \A i \in DOMAIN mem :
                    mem'[i] # mem[i] => (c.offset <= i /\ i < c.offset + c.size + CHECKSUM_LEN)]_vars

\* C38 witness: a record was returned and sent on, and after it another insert
\* has written its own record and returned.
C38_Witness ==
  /\ Len(returned) = 1 /\ returned[1].ptr.size > 0
  /\ \E t \in Writers :
       /\ pc[t] = "done" /\ result[t].kind = "Ok"
       /\ result[t].ptr.offset > returned[1].ptr.offset
       /\ mem[result[t].ptr.offset] # 0

\* ------------------------------------------- what changes the discarded counter
\* The step is the one in which t's insert fails after its allocation (builder
\* error or IO error) and its buffer is dropped.
FailsAllocated(t) == pc[t] \in {"fill", "flush"} /\ pc'[t] = "done"

SizeHintNeverWraps ==
  [][\A t \in Writers, vb \in Builders, tomb \in BOOLEAN :
       (Calls(t, vb, tomb) /\ pc'[t] = "fill") =>
         /\ allocated' = allocated + vb.size + CHECKSUM_LEN
         /\ cur'[t].size = vb.size]_vars

\* C40: no length arithmetic of insert wraps: a call of insert or
\* insert_tombstone with a slice of n bytes, n of 2^32 and more included,
\* either fails or returns a pointer whose size is n; it never answers with a
\* pointer for n modulo 2^32, the zero pointer for a slice of 2^32 bytes
\* included, and a call that allocates asks for size + 8 bytes.
C40_NoLengthWrap ==
  [][/\ \A t \in Writers, n \in HugeLens, tomb \in BOOLEAN :
          (CallsSlice(t, n, tomb) /\ result'[t].kind = "Ok") =>
            WideOf(result'[t].ptr.size) = n
     /\ \A t \in Writers, vb \in Builders, tomb \in BOOLEAN :
          (Calls(t, vb, tomb) /\ pc'[t] = "fill") =>
            allocated' = allocated + vb.size + CHECKSUM_LEN]_vars

====
